---- MODULE Spec2Model ----
(***************************************************************************)
(* lml.plugin: the plugin registry of src/lml/plugin.py.                   *)
(*                                                                         *)
(* Python strings are sequences of one-character strings, so that lower(), *)
(* split('.') and replace('_', '-') are computed character by character.   *)
(* An optional value is a sequence of length 0 (None) or 1 (the value).    *)
(* Objects (PluginInfo, PluginManager, classes) are identified by ids.     *)
(***************************************************************************)
EXTENDS Integers, Sequences, FiniteSets, TLC

\* ---------------------------------------------------------------- bounds
MaxDecl == 2        \* declarations per run when resolution is explored (Spec)
MaxDeclOnly == 3    \* declarations per run of the declaration side (SpecDecl)
MaxManagers == 2    \* PluginManager objects constructed per run
MaxCount == 2       \* saturation of the call counters kept for the properties
MaxThreads == 3     \* threads of the runs with interleaved calls (SpecConc)

\* ------------------------------------------------------------ primitives
None == "None"
Unset == <<>>
Some(v) == <<v>>

UpperChars == <<"A","B","C","D","E","F","G","H","I","J","K","L","M",
                "N","O","P","Q","R","S","T","U","V","W","X","Y","Z">>
LowerChars == <<"a","b","c","d","e","f","g","h","i","j","k","l","m",
                "n","o","p","q","r","s","t","u","v","w","x","y","z">>

OtherChars == <<".", "_", "-", "0", "1", "2", "3", "4", "5", "6", "7", "8", "9">>
Range(q) == {q[i] : i \in DOMAIN q}

\* str.lower() on one character
LowerChar ==
    [ch \in Range(UpperChars) \cup Range(LowerChars) \cup Range(OtherChars) |->
        IF ch \in Range(UpperChars)
        THEN LowerChars[CHOOSE i \in DOMAIN UpperChars : UpperChars[i] = ch]
        ELSE ch]

lower_identity(s) == s
\* str.lower()
lower(s) == [i \in 1..Len(s) |-> LowerChar[s[i]]]

\* s.split('.')[0]
split0(s) ==
    IF \E i \in 1..Len(s) : s[i] = "."
    THEN SubSeq(s, 1, (CHOOSE i \in 1..Len(s) :
                          s[i] = "." /\ \A j \in 1..(i-1) : s[j] # ".") - 1)
    ELSE s

\* s.replace('_', '-')
replace(s) == [i \in 1..Len(s) |-> IF s[i] = "_" THEN "-" ELSE s[i]]

_get_me_pypi_package_name_noreplace(module_name) == split0(module_name)
_get_me_pypi_package_name(module_name) == replace(split0(module_name))

\* dict / defaultdict as a function on its key set
Put(f, k, v) == [x \in (DOMAIN f) \cup {k} |-> IF x = k THEN v ELSE f[x]]
Del(f, k) == [x \in (DOMAIN f) \ {k} |-> f[x]]
EmptyDict == [x \in {} |-> 0]
\* defaultdict(list)[k] read for appending
ListAt(f, k) == IF k \in DOMAIN f THEN f[k] ELSE <<>>

\* ------------------------------------------------- the objects of a run
\* plugin types (plugin manager names)
TypeWr == <<"W","r">>
TypeRd == <<"R","d">>
Types == {TypeWr, TypeRd}

\* classes: name |-> __module__
Classes == {"K1", "K2", "K3"}
ClassModule(c) ==
    CASE c = "K1" -> <<"a","_","x",".","m">>
      [] c = "K2" -> <<"b","_","x">>
      [] c = "K3" -> <<"c","_","x",".","n">>

PathK1 == <<"a","_","x",".","m",".","K","1">>
PathK2 == <<"b","_","x",".","K","2">>
PathBad == <<"n","_","o",".","K","9">>

\* lml.utils.do_import_class: the class an import path names, or a failure
Unresolvable == "Unresolvable"
do_import_class(path) ==
    CASE path = PathK1 -> "K1"
      [] path = PathK2 -> "K2"
      [] OTHER -> Unresolvable

\* PluginInfo objects: the constructor arguments of each (immutable fields)
PluginInfo == <<
    [plugin_type |-> TypeWr, absolute_import_path |-> Some(PathK1),
     tags |-> Some(<< <<"X","m">> >>)],
    [plugin_type |-> TypeWr, absolute_import_path |-> Some(PathK2),
     tags |-> Some(<< <<"X","M">>, <<"w","r">> >>)],
    [plugin_type |-> TypeWr, absolute_import_path |-> Unset,
     tags |-> Unset],
    [plugin_type |-> TypeRd, absolute_import_path |-> Some(PathBad),
     tags |-> Unset],
    [plugin_type |-> TypeWr, absolute_import_path |-> Some(PathK1),
     tags |-> Some(<<>>)] >>
Desc == DOMAIN PluginInfo

\* classes a descriptor is applied to as a decorator
EagerClasses == {"K2", "K3"}

\* the descriptors modules declare through a chain, and the (descriptor,
\* class) pairs of the decorator applications
LazyDesc == Desc
Decorations == { <<3, "K2">>, <<3, "K3">>, <<4, "K3">> }
EagerDesc == {a[1] : a \in Decorations}
\* the declarations of the runs in which resolution is explored
ResolvedLazyDesc == {1, 2, 4}
ResolvedDecorations == { <<3, "K2">>, <<3, "K3">> }

\* (key, library) given to load_me_now
Requests == {
    << <<"x","M">>, Unset >>,
    << <<"X","M">>, Unset >>,
    << <<"x","M">>, Some(<<"b","-","x">>) >>,
    << <<"X","M">>, Some(<<"a","_","x">>) >>,
    << <<"W","R">>, Unset >>,
    << <<"W","R">>, Some(<<"b","-","x">>) >>,
    << <<"R","D">>, Unset >> }
\* (key, **keywords) given to get_a_plugin
InstanceRequests == {
    << <<"x","M">>, {} >>,
    << <<"x","M">>, {"k"} >>,
    << <<"W","R">>, {"k"} >> }

\* --------------------------------------------------------------- state
VARIABLES
    cls,                 \* PluginInfo.cls of every descriptor
    managers,            \* PluginManager objects in construction order:
                         \*   [plugin_name, registry]
    PLUG_IN_MANAGERS,    \* plugin type |-> manager id
    CACHED_PLUGIN_INFO,  \* plugin type |-> list of descriptors
    lastCall,            \* the last call and its outcome
    declLog,             \* history: manager name |-> descriptors declared
    preLen,              \* history: length of declLog at manager creation
    loads,               \* history: classes do_import_class returned, per descriptor
    threads              \* the calls in progress when calls interleave:
                         \*   thread |-> [op, pc, t, d, m, i, raised]

vars == <<cls, managers, PLUG_IN_MANAGERS, CACHED_PLUGIN_INFO, lastCall,
          declLog, preLen, loads, threads>>

\* a raised exception: its class, its format string and the values formatted
NoExc == [kind |-> "none", fmt |-> "", args |-> <<>>]
Exc(kind, fmt, args) == [kind |-> kind, fmt |-> fmt, args |-> args]

Call(op, mgr, d, key, library, keywords, raised, result, loaded, picked, called_with) ==
    [op |-> op, mgr |-> mgr, d |-> d, key |-> key, library |-> library,
     keywords |-> keywords, raised |-> raised, result |-> result,
     loaded |-> loaded, picked |-> picked, called_with |-> called_with]

NoCall == Call("none", 0, 0, <<>>, Unset, {}, NoExc, None, <<>>, 0, Unset)

\* a thread: the call it runs, where it is in it, and the locals of the
\* call (plugin type, descriptor, manager, position in the pending list)
ThreadIds == 1..MaxThreads
Thread(op, pc, t, d, m, i, raised) ==
    [op |-> op, pc |-> pc, t |-> t, d |-> d, m |-> m, i |-> i,
     raised |-> raised]
NoThread == Thread("none", "idle", <<>>, 0, 0, 0, NoExc)

Sat(n) == IF n < MaxCount THEN n + 1 ELSE n

nDecl == Len(declLog[TypeWr]) + Len(declLog[TypeRd])

Init ==
    /\ cls = [d \in Desc |-> None]
    /\ managers = <<>>
    /\ PLUG_IN_MANAGERS = EmptyDict
    /\ CACHED_PLUGIN_INFO = EmptyDict
    /\ lastCall = NoCall
    /\ declLog = [t \in Types |-> <<>>]
    /\ preLen = [t \in Types |-> 0]
    /\ loads = [d \in Desc |-> 0]
    /\ threads = [th \in ThreadIds |-> NoThread]

\* ---------------------------------------------------------- PluginInfo
tags_given_only(d) ==
    IF PluginInfo[d].tags = Unset THEN <<>> ELSE PluginInfo[d].tags[1]
\* PluginInfo.tags: the sequence the generator yields
tags(d) ==
    IF PluginInfo[d].tags = Unset
    THEN << PluginInfo[d].plugin_type >>
    ELSE PluginInfo[d].tags[1]

\* PluginInfo.__getattr__('module_name'): <<>> when it raises AttributeError
\* (no import path and cls is None)
module_name(d, c) ==
    IF PluginInfo[d].absolute_import_path # Unset
       /\ PluginInfo[d].absolute_import_path[1] # <<>>
    THEN Some(split0(PluginInfo[d].absolute_import_path[1]))
    ELSE IF c[d] # None THEN Some(ClassModule(c[d])) ELSE Unset

\* ------------------------------------------------------- PluginManager
RECURSIVE index_tags(_, _, _, _)
\* the loop "for key in plugin_info.tags(): registry[key.lower()].append(..)"
index_tags(registry, d, ts, i) ==
    IF i > Len(ts) THEN registry
    ELSE index_tags(Put(registry, lower(ts[i]),
                        Append(ListAt(registry, lower(ts[i])), d)),
                    d, ts, i + 1)

RECURSIVE index_tags_front(_, _, _, _)
index_tags_front(registry, d, ts, i) ==
    IF i > Len(ts) THEN registry
    ELSE index_tags_front(Put(registry, lower(ts[i]),
                              <<d>> \o ListAt(registry, lower(ts[i]))),
                          d, ts, i + 1)
load_me_later_front(registry, d) == index_tags_front(registry, d, tags(d), 1)
RECURSIVE index_tags_once(_, _, _, _)
index_tags_once(registry, d, ts, i) ==
    IF i > Len(ts) THEN registry
    ELSE index_tags_once(
             IF d \in Range(ListAt(registry, lower(ts[i]))) THEN registry
             ELSE Put(registry, lower(ts[i]),
                      Append(ListAt(registry, lower(ts[i])), d)),
             d, ts, i + 1)
\* the same, skipping a list that already holds the descriptor
load_me_later_dedup(registry, d) == index_tags_once(registry, d, tags(d), 1)
\* PluginManager.load_me_later, once the logging of module_name succeeded
load_me_later(registry, d) == index_tags(registry, d, tags(d), 1)

\* does PluginManager.load_me_later raise (logging plugin_info.module_name)
load_me_later_raises(d, c) == module_name(d, c) = Unset

\* the same, attaching the class to every descriptor the lists of the tags
\* hold
register_a_plugin_shared(registry, c, plugin_cls, d) ==
    LET r == index_tags(registry, d, tags(d), 1)
        listed == UNION {Range(r[lower(tags(d)[j])]) : j \in 1..Len(tags(d))}
    IN [registry |-> r,
        cls |-> [x \in DOMAIN c |-> IF x \in listed THEN plugin_cls ELSE c[x]]]
\* PluginManager.register_a_plugin: [registry, cls]
register_a_plugin(registry, c, plugin_cls, d) ==
    [registry |-> index_tags(registry, d, tags(d), 1),
     cls |-> IF Len(tags(d)) > 0 THEN [c EXCEPT ![d] = plugin_cls] ELSE c]

dynamic_load_library_always(d, c) ==
    IF PluginInfo[d].absolute_import_path = Unset
    THEN [raised |-> Exc("TypeError", "import  + None", <<>>),
          ret |-> c[d], cls |-> c, invoked |-> FALSE]
    ELSE LET k == do_import_class(PluginInfo[d].absolute_import_path[1]) IN
         IF k = Unresolvable
         THEN [raised |-> Exc(Unresolvable, "do_import_class",
                              PluginInfo[d].absolute_import_path),
               ret |-> None, cls |-> c, invoked |-> TRUE]
         ELSE [raised |-> NoExc, ret |-> k,
               cls |-> [c EXCEPT ![d] = k], invoked |-> TRUE]
\* the same, returning the class without keeping it on the descriptor
dynamic_load_library_nocache(d, c) ==
    IF c[d] = None
    THEN IF PluginInfo[d].absolute_import_path = Unset
         THEN [raised |-> Exc("TypeError", "import  + None", <<>>),
               ret |-> None, cls |-> c, invoked |-> FALSE]
         ELSE LET k == do_import_class(PluginInfo[d].absolute_import_path[1])
              IN IF k = Unresolvable
                 THEN [raised |-> Exc(Unresolvable, "do_import_class",
                              PluginInfo[d].absolute_import_path),
                       ret |-> None, cls |-> c, invoked |-> TRUE]
                 ELSE [raised |-> NoExc, ret |-> k, cls |-> c,
                       invoked |-> TRUE]
    ELSE [raised |-> NoExc, ret |-> c[d], cls |-> c, invoked |-> FALSE]
\* PluginManager.dynamic_load_library: [raised, ret, cls, invoked]
dynamic_load_library(d, c) ==
    IF c[d] = None
    THEN IF PluginInfo[d].absolute_import_path = Unset
         THEN [raised |-> Exc("TypeError", "import  + None", <<>>),
               ret |-> None, cls |-> c, invoked |-> FALSE]
         ELSE LET k == do_import_class(PluginInfo[d].absolute_import_path[1])
              IN IF k = Unresolvable
                 THEN [raised |-> Exc(Unresolvable, "do_import_class",
                              PluginInfo[d].absolute_import_path),
                       ret |-> None, cls |-> c, invoked |-> TRUE]
                 ELSE [raised |-> NoExc, ret |-> k,
                       cls |-> [c EXCEPT ![d] = k], invoked |-> TRUE]
    ELSE [raised |-> NoExc, ret |-> c[d], cls |-> c, invoked |-> FALSE]

\* the truth value of the library argument ("if library and ...")
Truthy(library) == library # Unset /\ library[1] # <<>>

\* PluginManager.raise_exception
raise_exception(plugin_name, key) ==
    Exc("Exception", "No %s is found for %s", <<plugin_name, key>>)
not_installed_own_kind(library) ==
    Exc("LibraryNotInstalled", "%s is not installed", <<library>>)
\* "raise Exception('%s is not installed' % library)"
not_installed(library) ==
    Exc("Exception", "%s is not installed", <<library>>)

RECURSIVE scan(_, _, _, _, _)
\* the for ... else loop of load_me_now over registry[__key]
scan(lst, i, c, library, loaded) ==
    IF i > Len(lst)
    THEN [raised |-> not_installed(library), result |-> None, cls |-> c,
          loaded |-> loaded, picked |-> 0]
    ELSE LET r == dynamic_load_library(lst[i], c)
             l == IF r.invoked THEN Append(loaded, lst[i]) ELSE loaded
         IN IF r.raised # NoExc
            THEN [raised |-> r.raised, result |-> None, cls |-> r.cls,
                  loaded |-> l, picked |-> 0]
            ELSE IF Truthy(library)
                    /\ _get_me_pypi_package_name(ClassModule(r.ret))
                         # library[1]
                 THEN scan(lst, i + 1, r.cls, library, l)
                 ELSE [raised |-> NoExc, result |-> r.ret, cls |-> r.cls,
                       loaded |-> l, picked |-> lst[i]]

Reverse(q) == [i \in 1..Len(q) |-> q[Len(q) + 1 - i]]
load_me_now_last(registry, c, plugin_name, key, library) ==
    IF lower(key) \in DOMAIN registry
    THEN [registry |-> registry]
         @@ scan(Reverse(registry[lower(key)]), 1, c, library, <<>>)
    ELSE [raised |-> raise_exception(plugin_name, key), result |-> None,
          cls |-> c, loaded |-> <<>>, picked |-> 0, registry |-> registry]
\* the same with the list read before the key is tested: reading a missing
\* key of a defaultdict(list) inserts it
load_me_now_reads_first(registry, c, plugin_name, key, library) ==
    IF lower(key) \in DOMAIN registry
    THEN [registry |-> registry]
         @@ scan(registry[lower(key)], 1, c, library, <<>>)
    ELSE [raised |-> raise_exception(plugin_name, key), result |-> None,
          cls |-> c, loaded |-> <<>>, picked |-> 0,
          registry |-> Put(registry, lower(key), <<>>)]
\* PluginManager.load_me_now: [raised, result, cls, loaded, picked,
\* registry]; "__key in self.registry" and the iteration over an existing
\* list leave the defaultdict as it is
load_me_now(registry, c, plugin_name, key, library) ==
    IF lower(key) \in DOMAIN registry
    THEN [registry |-> registry]
         @@ scan(registry[lower(key)], 1, c, library, <<>>)
    ELSE [raised |-> raise_exception(plugin_name, key), result |-> None,
          cls |-> c, loaded |-> <<>>, picked |-> 0, registry |-> registry]

constructor_args_forwarded(keywords) == keywords
\* the arguments get_a_plugin calls the class with: "return plugin()"
constructor_args(keywords) == {}

\* ------------------------------------------------ module level functions
RECURSIVE drain(_, _, _, _)
\* the loop of _register_class over CACHED_PLUGIN_INFO[plugin_name]:
\* [registry, raised]
drain(registry, cached, i, c) ==
    IF i > Len(cached) THEN [registry |-> registry, raised |-> NoExc]
    ELSE IF load_me_later_raises(cached[i], c)
         THEN [registry |-> registry,
               raised |-> Exc("AttributeError", "__module__", <<>>)]
         ELSE drain(load_me_later(registry, cached[i]), cached, i + 1, c)

_register_class_keep(m, id, pim, cpi, c) ==
    [manager |-> IF m.plugin_name \in DOMAIN cpi
                 THEN [m EXCEPT !.registry =
                          drain(m.registry, cpi[m.plugin_name], 1, c).registry]
                 ELSE m,
     PLUG_IN_MANAGERS |-> Put(pim, m.plugin_name, id),
     CACHED_PLUGIN_INFO |-> cpi,
     raised |-> NoExc]
\* the first manager of a type stays the one PLUG_IN_MANAGERS holds
_register_class_setdefault(m, id, pim, cpi, c) ==
    [manager |-> m,
     PLUG_IN_MANAGERS |-> IF m.plugin_name \in DOMAIN pim THEN pim
                          ELSE Put(pim, m.plugin_name, id),
     CACHED_PLUGIN_INFO |-> cpi,
     raised |-> NoExc]
\* _register_class for the new manager m = [plugin_name, registry] that
\* becomes manager number id: [manager, PLUG_IN_MANAGERS, CACHED_PLUGIN_INFO,
\* raised]
_register_class(m, id, pim, cpi, c) ==
    IF m.plugin_name \in DOMAIN cpi
    THEN LET r == drain(m.registry, cpi[m.plugin_name], 1, c) IN
         [manager |-> [m EXCEPT !.registry = r.registry],
          PLUG_IN_MANAGERS |-> Put(pim, m.plugin_name, id),
          CACHED_PLUGIN_INFO |-> IF r.raised = NoExc
                                 THEN Del(cpi, m.plugin_name) ELSE cpi,
          raised |-> r.raised]
    ELSE [manager |-> m,
          PLUG_IN_MANAGERS |-> Put(pim, m.plugin_name, id),
          CACHED_PLUGIN_INFO |-> cpi,
          raised |-> NoExc]

get_manager_absent(pim, plugin_type) == 0
\* PLUG_IN_MANAGERS.get(plugin_type): 0 is None
get_manager(pim, plugin_type) ==
    IF plugin_type \in DOMAIN pim THEN pim[plugin_type] ELSE 0

\* the same, caching the descriptor without the class
_register_a_plugin_detached(d, plugin_cls, mgrs, pim, cpi, c) ==
    LET manager == get_manager(pim, PluginInfo[d].plugin_type) IN
    IF manager # 0
    THEN LET r == register_a_plugin(mgrs[manager].registry, c, plugin_cls, d)
         IN [managers |-> [mgrs EXCEPT ![manager].registry = r.registry],
             CACHED_PLUGIN_INFO |-> cpi,
             cls |-> r.cls]
    ELSE [managers |-> mgrs,
          CACHED_PLUGIN_INFO |->
              Put(cpi, PluginInfo[d].plugin_type,
                  Append(ListAt(cpi, PluginInfo[d].plugin_type), d)),
          cls |-> [c EXCEPT ![d] = None]]
\* _register_a_plugin: [managers, CACHED_PLUGIN_INFO, cls]
_register_a_plugin(d, plugin_cls, mgrs, pim, cpi, c) ==
    LET manager == get_manager(pim, PluginInfo[d].plugin_type) IN
    IF manager # 0
    THEN LET r == register_a_plugin(mgrs[manager].registry, c, plugin_cls, d)
         IN [managers |-> [mgrs EXCEPT ![manager].registry = r.registry],
             CACHED_PLUGIN_INFO |-> cpi,
             cls |-> r.cls]
    ELSE [managers |-> mgrs,
          CACHED_PLUGIN_INFO |->
              Put(cpi, PluginInfo[d].plugin_type,
                  Append(ListAt(cpi, PluginInfo[d].plugin_type), d)),
          cls |-> c]

\* _load_me_later: [managers, CACHED_PLUGIN_INFO, raised]
_load_me_later(d, mgrs, pim, cpi, c) ==
    LET manager == get_manager(pim, PluginInfo[d].plugin_type) IN
    IF manager # 0
    THEN IF load_me_later_raises(d, c)
         THEN [managers |-> mgrs, CACHED_PLUGIN_INFO |-> cpi,
               raised |-> Exc("AttributeError", "__module__", <<>>)]
         ELSE [managers |-> [mgrs EXCEPT ![manager].registry =
                                load_me_later(mgrs[manager].registry, d)],
               CACHED_PLUGIN_INFO |-> cpi, raised |-> NoExc]
    ELSE IF PluginInfo[d].absolute_import_path = Unset
         THEN [managers |-> mgrs, CACHED_PLUGIN_INFO |-> cpi,
               raised |-> Exc("TypeError", "caching  + None", <<>>)]
         ELSE [managers |-> mgrs,
               CACHED_PLUGIN_INFO |->
                   Put(cpi, PluginInfo[d].plugin_type,
                       Append(ListAt(cpi, PluginInfo[d].plugin_type), d)),
               raised |-> NoExc]

\* -------------------------------------------------------------- actions
\* the caller holds no outcome of an earlier call
Idle == lastCall = NoCall

Log(name, d) == [declLog EXCEPT ![name] = Append(@, d)]

\* PluginManager.__init__(plugin_type): builds the manager and registers it
PluginManager_init(plugin_type) ==
    /\ Idle
    /\ Len(managers) < MaxManagers
    /\ LET r == _register_class([plugin_name |-> plugin_type,
                                 registry |-> EmptyDict],
                                Len(managers) + 1,
                                PLUG_IN_MANAGERS, CACHED_PLUGIN_INFO, cls)
       IN /\ managers' = Append(managers, r.manager)
          /\ PLUG_IN_MANAGERS' = r.PLUG_IN_MANAGERS
          /\ CACHED_PLUGIN_INFO' = r.CACHED_PLUGIN_INFO
          /\ preLen' = IF plugin_type \in DOMAIN PLUG_IN_MANAGERS THEN preLen
                       ELSE [preLen EXCEPT ![plugin_type] =
                                Len(declLog[plugin_type])]
          /\ lastCall' = Call("PluginManager", Len(managers) + 1, 0,
                              plugin_type, Unset, {}, r.raised, None, <<>>,
                              0, Unset)
    /\ UNCHANGED <<cls, declLog, loads, threads>>

\* PluginInfo.__call__(cls): the descriptor applied to a class
PluginInfo_call(d, plugin_cls) ==
    /\ Idle
    /\ LET r == _register_a_plugin(d, plugin_cls, managers, PLUG_IN_MANAGERS,
                                   CACHED_PLUGIN_INFO,
                                   [cls EXCEPT ![d] = plugin_cls])
       IN /\ cls' = r.cls
          /\ managers' = r.managers
          /\ CACHED_PLUGIN_INFO' = r.CACHED_PLUGIN_INFO
    /\ declLog' = Log(PluginInfo[d].plugin_type, d)
    /\ lastCall' = Call("__call__", 0, d, <<>>, Unset, {}, NoExc, plugin_cls,
                        <<>>, 0, Unset)
    /\ UNCHANGED <<PLUG_IN_MANAGERS, preLen, loads, threads>>

\* the effect of _load_me_later(d) called by the operation op
SubmitLater(op, d) ==
    /\ Idle
    /\ LET r == _load_me_later(d, managers, PLUG_IN_MANAGERS,
                               CACHED_PLUGIN_INFO, cls)
       IN /\ managers' = r.managers
          /\ CACHED_PLUGIN_INFO' = r.CACHED_PLUGIN_INFO
          /\ declLog' = IF r.raised = NoExc
                        THEN Log(PluginInfo[d].plugin_type, d) ELSE declLog
          /\ lastCall' = Call(op, 0, d, <<>>, Unset, {}, r.raised, None,
                              <<>>, 0, Unset)
    /\ UNCHANGED <<cls, PLUG_IN_MANAGERS, preLen, loads, threads>>

\* PluginInfoChain.add_a_plugin_instance(plugin_info_instance)
add_a_plugin_instance(d) == SubmitLater("add_a_plugin_instance", d)

\* PluginInfoChain._get_abs_path
_get_abs_path(module_name_, submodule) == module_name_ \o <<".">> \o submodule

\* a descriptor nothing has touched since its construction
Pristine(d) ==
    /\ cls[d] = None
    /\ \A t \in Types : \A i \in 1..Len(declLog[t]) : declLog[t][i] # d

ChainPaths == { <<"a","_","x",".","m">>, <<"b","_","x">>, <<"n","_","o">> }
Submodules == { <<"K","1">>, <<"K","2">>, <<"K","9">> }

\* PluginInfoChain(path).add_a_plugin(plugin_type, submodule, **keywords):
\* d is the PluginInfo it constructs
add_a_plugin(path, plugin_type, submodule, d) ==
    /\ Pristine(d)
    /\ PluginInfo[d].plugin_type = plugin_type
    /\ PluginInfo[d].absolute_import_path
         = Some(_get_abs_path(path, submodule))
    /\ SubmitLater("add_a_plugin", d)

\* the history counters after a load_me_now that returned r
Loads(r) ==
    [d \in Desc |-> IF /\ \E i \in 1..Len(r.loaded) : r.loaded[i] = d
                       /\ r.cls[d] # None
                    THEN Sat(loads[d]) ELSE loads[d]]

\* manager.load_me_now(key, library)
Manager_load_me_now(m, key, library) ==
    /\ Idle
    /\ LET r == load_me_now(managers[m].registry, cls,
                            managers[m].plugin_name, key, library)
       IN /\ cls' = r.cls
          /\ managers' = [managers EXCEPT ![m].registry = r.registry]
          /\ loads' = Loads(r)
          /\ lastCall' = Call("load_me_now", m, 0, key, library, {},
                              r.raised, r.result, r.loaded, r.picked, Unset)
    /\ UNCHANGED <<PLUG_IN_MANAGERS, CACHED_PLUGIN_INFO, declLog, preLen,
                   threads>>

\* manager.get_a_plugin(key, **keywords)
Manager_get_a_plugin(m, key, keywords) ==
    /\ Idle
    /\ LET r == load_me_now(managers[m].registry, cls,
                            managers[m].plugin_name, key, Unset)
       IN /\ cls' = r.cls
          /\ managers' = [managers EXCEPT ![m].registry = r.registry]
          /\ loads' = Loads(r)
          /\ lastCall' = Call("get_a_plugin", m, 0, key, Unset, keywords,
                              r.raised, r.result, r.loaded, r.picked,
                              IF r.raised = NoExc
                              THEN Some(constructor_args(keywords))
                              ELSE Unset)
    /\ UNCHANGED <<PLUG_IN_MANAGERS, CACHED_PLUGIN_INFO, declLog, preLen,
                   threads>>

\* the caller is done with the outcome of its last call and goes on
Continue ==
    /\ lastCall # NoCall
    /\ lastCall' = NoCall
    /\ UNCHANGED <<cls, managers, PLUG_IN_MANAGERS, CACHED_PLUGIN_INFO,
                   declLog, preLen, loads, threads>>

Declare(lazy, decorations) ==
    \/ \E a \in decorations : PluginInfo_call(a[1], a[2])
    \/ \E d \in lazy : add_a_plugin_instance(d)
    \/ \E p \in ChainPaths, t \in Types, s \in Submodules, d \in lazy :
          add_a_plugin(p, t, s, d)

Next ==
    \/ Continue
    \/ \E t \in Types : PluginManager_init(t)
    \/ nDecl < MaxDecl /\ Declare(ResolvedLazyDesc, ResolvedDecorations)
    \/ \E m \in 1..Len(managers), r \in Requests :
          Manager_load_me_now(m, r[1], r[2])
    \/ \E m \in 1..Len(managers), r \in InstanceRequests :
          Manager_get_a_plugin(m, r[1], r[2])

Spec == Init /\ [][Next]_vars

\* the declaration side alone: no resolution, longer runs
NextDecl ==
    \/ Continue
    \/ \E t \in Types : PluginManager_init(t)
    \/ nDecl < MaxDeclOnly /\ Declare(LazyDesc, Decorations)

SpecDecl == Init /\ [][NextDecl]_vars

\* ------------------------------------------------- interleaved calls
\* The module takes no lock. When threads call it, a call is a sequence of
\* steps, one per read or write of PLUG_IN_MANAGERS and CACHED_PLUGIN_INFO
\* (a manager's load_me_later / register_a_plugin is one step).
At(th, op, pc) == threads[th].op = op /\ threads[th].pc = pc
Goto(th, pc) == [threads EXCEPT ![th].pc = pc]

\* PluginManager(plugin_type) up to the call of _register_class; a type is
\* given one manager in these runs, so that the list the drain iterates is
\* the one CACHED_PLUGIN_INFO holds until the drain deletes it
PluginManager_begin(th, plugin_type) ==
    /\ threads[th] = NoThread
    /\ Len(managers) < MaxManagers
    /\ \A m \in 1..Len(managers) : managers[m].plugin_name # plugin_type
    /\ managers' = Append(managers, [plugin_name |-> plugin_type,
                                     registry |-> EmptyDict])
    /\ threads' = [threads EXCEPT ![th] =
                      Thread("PluginManager", "store", plugin_type, 0,
                             Len(managers) + 1, 0, NoExc)]
    /\ UNCHANGED <<cls, PLUG_IN_MANAGERS, CACHED_PLUGIN_INFO, lastCall,
                   declLog, preLen, loads>>

\* "PLUG_IN_MANAGERS[cls.plugin_name] = cls"
_register_class_store(th) ==
    /\ At(th, "PluginManager", "store")
    /\ PLUG_IN_MANAGERS' = Put(PLUG_IN_MANAGERS, threads[th].t, threads[th].m)
    /\ threads' = Goto(th, "test")
    /\ UNCHANGED <<cls, managers, CACHED_PLUGIN_INFO, lastCall, declLog,
                   preLen, loads>>

\* "if cls.plugin_name in CACHED_PLUGIN_INFO:"
_register_class_test(th) ==
    /\ At(th, "PluginManager", "test")
    /\ threads' = IF threads[th].t \in DOMAIN CACHED_PLUGIN_INFO
                  THEN [threads EXCEPT ![th].pc = "next", ![th].i = 1]
                  ELSE Goto(th, "done")
    /\ UNCHANGED <<cls, managers, PLUG_IN_MANAGERS, CACHED_PLUGIN_INFO,
                   lastCall, declLog, preLen, loads>>

\* one turn of "for plugin_info in CACHED_PLUGIN_INFO[cls.plugin_name]:
\* cls.load_me_later(plugin_info)": the iterator reads the list as it is now
_register_class_next(th) ==
    /\ At(th, "PluginManager", "next")
    /\ LET pending == CACHED_PLUGIN_INFO[threads[th].t]
           i == threads[th].i
           m == threads[th].m
       IN IF i > Len(pending)
          THEN /\ threads' = Goto(th, "del")
               /\ UNCHANGED managers
          ELSE IF load_me_later_raises(pending[i], cls)
          THEN /\ threads' = [threads EXCEPT ![th].pc = "done", ![th].raised =
                                 Exc("AttributeError", "__module__", <<>>)]
               /\ UNCHANGED managers
          ELSE /\ managers' = [managers EXCEPT ![m].registry =
                                  load_me_later(managers[m].registry,
                                                pending[i])]
               /\ threads' = [threads EXCEPT ![th].i = i + 1]
    /\ UNCHANGED <<cls, PLUG_IN_MANAGERS, CACHED_PLUGIN_INFO, lastCall,
                   declLog, preLen, loads>>

\* "del CACHED_PLUGIN_INFO[cls.plugin_name]"
_register_class_del(th) ==
    /\ At(th, "PluginManager", "del")
    /\ CACHED_PLUGIN_INFO' = Del(CACHED_PLUGIN_INFO, threads[th].t)
    /\ threads' = Goto(th, "done")
    /\ UNCHANGED <<cls, managers, PLUG_IN_MANAGERS, lastCall, declLog,
                   preLen, loads>>

\* add_a_plugin_instance(d) up to the call of _load_me_later
_load_me_later_begin(th, d) ==
    /\ threads[th] = NoThread
    /\ threads' = [threads EXCEPT ![th] =
                      Thread("_load_me_later", "get",
                             PluginInfo[d].plugin_type, d, 0, 0, NoExc)]
    /\ UNCHANGED <<cls, managers, PLUG_IN_MANAGERS, CACHED_PLUGIN_INFO,
                   lastCall, declLog, preLen, loads>>

\* PluginInfo.__call__(cls): "self.cls = cls", up to _register_a_plugin
_register_a_plugin_begin(th, d, plugin_cls) ==
    /\ threads[th] = NoThread
    /\ cls' = [cls EXCEPT ![d] = plugin_cls]
    /\ threads' = [threads EXCEPT ![th] =
                      Thread("_register_a_plugin", "get",
                             PluginInfo[d].plugin_type, d, 0, 0, NoExc)]
    /\ UNCHANGED <<managers, PLUG_IN_MANAGERS, CACHED_PLUGIN_INFO, lastCall,
                   declLog, preLen, loads>>

\* "manager = PLUG_IN_MANAGERS.get(plugin_info.plugin_type)" of either
\* declaration
declaration_get(th) ==
    /\ threads[th].op \in {"_load_me_later", "_register_a_plugin"}
    /\ threads[th].pc = "get"
    /\ LET manager == get_manager(PLUG_IN_MANAGERS, threads[th].t)
       IN threads' = [threads EXCEPT ![th].m = manager, ![th].pc =
                         IF manager # 0 THEN "index" ELSE "cache"]
    /\ UNCHANGED <<cls, managers, PLUG_IN_MANAGERS, CACHED_PLUGIN_INFO,
                   lastCall, declLog, preLen, loads>>

\* "manager.load_me_later(plugin_info)"
_load_me_later_index(th) ==
    /\ At(th, "_load_me_later", "index")
    /\ LET m == threads[th].m
           d == threads[th].d
       IN IF load_me_later_raises(d, cls)
          THEN /\ threads' = [threads EXCEPT ![th].pc = "done", ![th].raised =
                                 Exc("AttributeError", "__module__", <<>>)]
               /\ UNCHANGED managers
          ELSE /\ managers' = [managers EXCEPT ![m].registry =
                                  load_me_later(managers[m].registry, d)]
               /\ threads' = Goto(th, "done")
    /\ UNCHANGED <<cls, PLUG_IN_MANAGERS, CACHED_PLUGIN_INFO, lastCall,
                   declLog, preLen, loads>>

\* "log.debug('caching ' + plugin_info.absolute_import_path)" and
\* "CACHED_PLUGIN_INFO[plugin_info.plugin_type].append(plugin_info)"
_load_me_later_cache(th) ==
    /\ At(th, "_load_me_later", "cache")
    /\ LET d == threads[th].d
           t == threads[th].t
       IN IF PluginInfo[d].absolute_import_path = Unset
          THEN /\ threads' = [threads EXCEPT ![th].pc = "done", ![th].raised =
                                 Exc("TypeError", "caching  + None", <<>>)]
               /\ UNCHANGED CACHED_PLUGIN_INFO
          ELSE /\ CACHED_PLUGIN_INFO' =
                      Put(CACHED_PLUGIN_INFO, t,
                          Append(ListAt(CACHED_PLUGIN_INFO, t), d))
               /\ threads' = Goto(th, "done")
    /\ UNCHANGED <<cls, managers, PLUG_IN_MANAGERS, lastCall, declLog,
                   preLen, loads>>

\* "manager.register_a_plugin(plugin_cls, plugin_info)"
_register_a_plugin_index(th) ==
    /\ At(th, "_register_a_plugin", "index")
    /\ LET m == threads[th].m
           d == threads[th].d
           r == register_a_plugin(managers[m].registry, cls, cls[d], d)
       IN /\ managers' = [managers EXCEPT ![m].registry = r.registry]
          /\ cls' = r.cls
    /\ threads' = Goto(th, "done")
    /\ UNCHANGED <<PLUG_IN_MANAGERS, CACHED_PLUGIN_INFO, lastCall, declLog,
                   preLen, loads>>

\* "CACHED_PLUGIN_INFO[plugin_info.plugin_type].append(plugin_info)"
_register_a_plugin_cache(th) ==
    /\ At(th, "_register_a_plugin", "cache")
    /\ CACHED_PLUGIN_INFO' =
          Put(CACHED_PLUGIN_INFO, threads[th].t,
              Append(ListAt(CACHED_PLUGIN_INFO, threads[th].t), threads[th].d))
    /\ threads' = Goto(th, "done")
    /\ UNCHANGED <<cls, managers, PLUG_IN_MANAGERS, lastCall, declLog,
                   preLen, loads>>

\* every thread makes one call; the steps of the calls interleave freely
NextConc ==
    \E th \in ThreadIds :
        \/ \E t \in Types : PluginManager_begin(th, t)
        \/ _register_class_store(th)
        \/ _register_class_test(th)
        \/ _register_class_next(th)
        \/ _register_class_del(th)
        \/ \E d \in LazyDesc : _load_me_later_begin(th, d)
        \/ \E a \in Decorations : _register_a_plugin_begin(th, a[1], a[2])
        \/ declaration_get(th)
        \/ _load_me_later_index(th)
        \/ _load_me_later_cache(th)
        \/ _register_a_plugin_index(th)
        \/ _register_a_plugin_cache(th)

SpecConc == Init /\ [][NextConc]_vars

\* ------------------------------------------------------------ properties
\* the managers constructed for plugin type t
ManagersOf(t) == {m \in 1..Len(managers) : managers[m].plugin_name = t}

RECURSIVE Entries(_, _, _)
\* the entries a run of declarations leaves under index key k: each
\* descriptor once per tag it yields that is k when lower-cased
Entries(log, k, i) ==
    IF i > Len(log) THEN <<>>
    ELSE SelectSeq([j \in 1..Len(tags(log[i])) |->
                      IF lower(tags(log[i])[j]) = k THEN log[i] ELSE 0],
                   LAMBDA x : x # 0)
         \o Entries(log, k, i + 1)

IndexKeys == UNION {{lower(tags(d)[j]) : j \in 1..Len(tags(d))} : d \in Desc}

NeverPendingAndManaged ==
    \A t \in DOMAIN PLUG_IN_MANAGERS : t \notin DOMAIN CACHED_PLUGIN_INFO

\* a manager was constructed for a type that had pending descriptors, and a
\* descriptor of that type was declared after it
NeverPendingAndManagedWitness ==
    \E t \in DOMAIN PLUG_IN_MANAGERS :
        /\ preLen[t] > 0
        /\ Len(declLog[t]) > preLen[t]
        /\ \E u \in Types : u \in DOMAIN CACHED_PLUGIN_INFO

\* the last call was manager.load_me_now / either of the resolving calls
IsLoadMeNow == lastCall.op = "load_me_now"
IsResolve == lastCall.op \in {"load_me_now", "get_a_plugin"}
Succeeded == lastCall.raised.kind = "none"
TagNotFound ==
    lastCall.raised.kind = "Exception"
    /\ lastCall.raised.fmt = "No %s is found for %s"
LibraryNotInstalled ==
    lastCall.raised.kind = "Exception"
    /\ lastCall.raised.fmt = "%s is not installed"

\* the package each class of the run comes from
PackageOf(k) ==
    CASE k = "K1" -> <<"a","-","x">>
      [] k = "K2" -> <<"b","-","x">>
      [] k = "K3" -> <<"c","-","x">>

\* the class a descriptor stands for: the one attached to it, else the one
\* its import path names (Unresolvable when it names none)
HandleOf(d) ==
    IF cls[d] # None THEN cls[d]
    ELSE IF PluginInfo[d].absolute_import_path = Unset THEN Unresolvable
    ELSE do_import_class(PluginInfo[d].absolute_import_path[1])

Min(S) == CHOOSE x \in S : \A y \in S : x <= y

\* C3: without a library load_me_now returns the class of the first
\* descriptor of the key's list; with a library L it returns the class of the
\* first descriptor whose class comes from package L, and raises
\* "L is not installed" when the list has none.
LibraryTieBreak ==
    (IsLoadMeNow
     /\ lower(lastCall.key) \in DOMAIN managers[lastCall.mgr].registry) =>
        LET lst == managers[lastCall.mgr].registry[lower(lastCall.key)]
            L == lastCall.library
            loadable == {i \in 1..Len(lst) : HandleOf(lst[i]) \in Classes}
            match == {i \in loadable : PackageOf(HandleOf(lst[i])) = L[1]}
        IN /\ (L = Unset /\ 1 \in loadable) =>
                 /\ Succeeded
                 /\ lastCall.picked = lst[1]
                 /\ lastCall.result = HandleOf(lst[1])
           /\ (L # Unset /\ match # {} /\ 1..Min(match) \subseteq loadable) =>
                 /\ Succeeded
                 /\ lastCall.picked = lst[Min(match)]
                 /\ lastCall.result = HandleOf(lst[Min(match)])
           /\ (L # Unset /\ match = {} /\ loadable = 1..Len(lst)) =>
                 LibraryNotInstalled

\* a library picked the second descriptor of a list, past a first one from
\* another package
LibraryTieBreakWitness ==
    /\ IsLoadMeNow /\ Succeeded /\ lastCall.library # Unset
    /\ LET lst == managers[lastCall.mgr].registry[lower(lastCall.key)]
       IN /\ Len(lst) >= 2
          /\ lastCall.picked = lst[2]
          /\ lst[1] # lst[2]
          /\ PackageOf(HandleOf(lst[1])) # lastCall.library[1]

\* the descriptors only ever declared by import path
PathBased ==
    {d \in Desc \ EagerDesc : PluginInfo[d].absolute_import_path # Unset}

\* C4: do_import_class loads the class of a path-based descriptor once
\* however often its tags are resolved: a resolve that returns its class
\* finds the one load made, and the class it cached.
ExactlyOnceLoad ==
    \A d \in PathBased :
        /\ loads[d] <= 1
        /\ (IsResolve /\ Succeeded /\ lastCall.picked = d) =>
               /\ loads[d] = 1
               /\ lastCall.result = cls[d]
               /\ cls[d] = do_import_class(PluginInfo[d].absolute_import_path[1])

\* a resolve returned the class of a path-based descriptor without loading
\* it: an earlier one had
ExactlyOnceLoadWitness ==
    \E d \in PathBased :
        /\ IsResolve /\ Succeeded /\ lastCall.picked = d
        /\ lastCall.loaded = <<>>
        /\ loads[d] = 1

\* the same string up to the case of its letters
SameLetters(a, b) ==
    /\ Len(a) = Len(b)
    /\ \A i \in 1..Len(a) :
          \/ a[i] = b[i]
          \/ \E j \in DOMAIN UpperChars :
                {a[i], b[i]} = {UpperChars[j], LowerChars[j]}

\* the descriptors in the index of manager m
IndexedOn(m) ==
    UNION {Range(managers[m].registry[k]) : k \in DOMAIN managers[m].registry}

\* C5: the index has one list per tag whatever the case of its letters, a
\* descriptor is in the list of each of its tags, and load_me_now finds the
\* list of a key that is a tag in any letter case.
CaseInsensitiveLookup ==
    /\ \A m \in 1..Len(managers) :
          LET registry == managers[m].registry IN
          /\ \A k1, k2 \in DOMAIN registry : SameLetters(k1, k2) => k1 = k2
          /\ \A d \in IndexedOn(m) : \A j \in 1..Len(tags(d)) :
                \E k \in DOMAIN registry :
                    SameLetters(k, tags(d)[j]) /\ d \in Range(registry[k])
    /\ IsResolve =>
          LET registry == managers[lastCall.mgr].registry
              found == {k \in DOMAIN registry : SameLetters(k, lastCall.key)}
          IN /\ TagNotFound <=> found = {}
             /\ (Succeeded /\ lastCall.library = Unset) =>
                   \E k \in found : lastCall.picked = registry[k][1]

\* a key found a descriptor none of whose tags is spelled like the key
CaseInsensitiveLookupWitness ==
    /\ IsResolve /\ Succeeded
    /\ \A j \in 1..Len(tags(lastCall.picked)) :
          tags(lastCall.picked)[j] # lastCall.key
    /\ \E k \in DOMAIN managers[lastCall.mgr].registry : k # lastCall.key

DefaultKey(d) ==
    CASE PluginInfo[d].plugin_type = TypeWr -> <<"w","r">>
      [] PluginInfo[d].plugin_type = TypeRd -> <<"r","d">>

\* the one manager of plugin type t, when t has exactly one
SoleManager(t) ==
    IF Cardinality(ManagersOf(t)) = 1 /\ t \in DOMAIN PLUG_IN_MANAGERS
    THEN PLUG_IN_MANAGERS[t] ELSE 0

\* descriptor d was declared for a type whose one manager exists
DeclaredAndManaged(d) ==
    /\ SoleManager(PluginInfo[d].plugin_type) # 0
    /\ d \in Range(declLog[PluginInfo[d].plugin_type])

\* C7: a descriptor without tags is listed under the lower-cased plugin
\* type and no other key, and is found by exactly the keys that spell the
\* plugin type in some letter case.
DefaultTag ==
    \A d \in {x \in Desc : PluginInfo[x].tags = Unset} :
        /\ \A m \in 1..Len(managers) : \A k \in DOMAIN managers[m].registry :
              d \in Range(managers[m].registry[k]) => k = DefaultKey(d)
        /\ DeclaredAndManaged(d) =>
              d \in Range(ListAt(
                  managers[SoleManager(PluginInfo[d].plugin_type)].registry,
                  DefaultKey(d)))
        /\ (IsResolve /\ Succeeded /\ lastCall.picked = d) =>
              SameLetters(lastCall.key, PluginInfo[d].plugin_type)
        /\ (/\ IsResolve
            /\ d \in IndexedOn(lastCall.mgr)
            /\ SameLetters(lastCall.key, PluginInfo[d].plugin_type)) =>
              ~TagNotFound

\* a descriptor without tags was found by its plugin type in another case
DefaultTagWitness ==
    /\ IsResolve /\ Succeeded
    /\ PluginInfo[lastCall.picked].tags = Unset
    /\ lastCall.key # PluginInfo[lastCall.picked].plugin_type
    /\ lastCall.key # DefaultKey(lastCall.picked)

\* C8 as claimed: a descriptor with an empty list of tags is listed under
\* the lower-cased plugin type once its manager exists.
EmptyTagsDefault ==
    \A d \in {x \in Desc : PluginInfo[x].tags = Some(<<>>)} :
        DeclaredAndManaged(d) =>
            d \in Range(ListAt(
                managers[SoleManager(PluginInfo[d].plugin_type)].registry,
                DefaultKey(d)))

\* the class each path-based descriptor of the run declares
DeclaredClass(d) ==
    CASE d = 1 -> "K1"
      [] d = 2 -> "K2"
      [] d = 5 -> "K1"

\* the implementation descriptor d declares: the class its path names, or
\* the class it was applied to
Implementation(d) ==
    IF d \in PathBased THEN DeclaredClass(d)
    ELSE IF cls[d] \in {a[2] : a \in {x \in Decorations : x[1] = d}}
         THEN cls[d] ELSE Unresolvable

\* C9 as claimed: load_me_now(T) returns the implementation of every
\* descriptor listed under T.
RoundTripEvery ==
    (IsLoadMeNow /\ Succeeded /\ lastCall.library = Unset) =>
        \A d \in Range(managers[lastCall.mgr].registry[lower(lastCall.key)]) :
            lastCall.result = HandleOf(d)

\* C9, amended: load_me_now(T) returns the implementation declared by the
\* first descriptor listed under T, whatever else is listed under T.
RoundTripFirst ==
    (IsLoadMeNow /\ Succeeded /\ lastCall.library = Unset) =>
        LET lst == managers[lastCall.mgr].registry[lower(lastCall.key)]
        IN /\ lastCall.picked = lst[1]
           /\ lastCall.result = Implementation(lst[1])

\* the first of two descriptors with different implementations was returned
RoundTripFirstWitness ==
    /\ IsLoadMeNow /\ Succeeded /\ lastCall.library = Unset
    /\ LET lst == managers[lastCall.mgr].registry[lower(lastCall.key)]
       IN /\ Len(lst) >= 2
          /\ HandleOf(lst[2]) \in Classes
          /\ HandleOf(lst[2]) # lastCall.result
          /\ lastCall.result = Implementation(lst[1])

\* C10 as claimed: get_a_plugin calls the class with the keywords given.
GetAPluginForwardsKeywords ==
    (lastCall.op = "get_a_plugin" /\ Succeeded) =>
        lastCall.called_with = Some(lastCall.keywords)

\* C10, amended: get_a_plugin resolves the key without a library and calls
\* the class with no argument, whatever keywords it was given.
GetAPluginCallsWithoutArguments ==
    lastCall.op = "get_a_plugin" =>
        /\ lastCall.library = Unset
        /\ Succeeded =>
              /\ lastCall.called_with = Some({})
              /\ lastCall.picked
                   = managers[lastCall.mgr].registry[lower(lastCall.key)][1]
              /\ lastCall.result = HandleOf(lastCall.picked)
        /\ ~Succeeded => lastCall.called_with = Unset

\* get_a_plugin was given keywords and built an instance
GetAPluginCallsWithoutArgumentsWitness ==
    /\ lastCall.op = "get_a_plugin" /\ Succeeded
    /\ lastCall.keywords # {}
    /\ lastCall.called_with # Unset

\* C11: a load_me_now or get_a_plugin that raises (no such key, library not
\* installed, or the failure of do_import_class) leaves every manager's
\* registry, PLUG_IN_MANAGERS and CACHED_PLUGIN_INFO as they were.
FailedResolveKeepsState ==
    [][(IsResolve' /\ ~Succeeded') =>
          /\ managers' = managers
          /\ PLUG_IN_MANAGERS' = PLUG_IN_MANAGERS
          /\ CACHED_PLUGIN_INFO' = CACHED_PLUGIN_INFO]_vars

\* do_import_class failed under a resolve while one type had an index and
\* another had pending descriptors
FailedResolveKeepsStateWitness ==
    /\ IsResolve
    /\ lastCall.raised.kind = Unresolvable
    /\ DOMAIN managers[lastCall.mgr].registry # {}
    /\ DOMAIN CACHED_PLUGIN_INFO # {}

\* C12 as claimed: the class attached to a descriptor, once set, is never
\* replaced by another, whatever operation runs.
HandleSetOnce ==
    [][\A d \in Desc : cls[d] # None => cls'[d] = cls[d]]_vars

\* the last call was a declaration: a descriptor applied to a class, or
\* submitted through a chain
IsDeclaration ==
    lastCall.op \in {"__call__", "add_a_plugin", "add_a_plugin_instance"}

\* C14: no step takes a plugin type out of PLUG_IN_MANAGERS, and a
\* declaration for a type that is in it leaves CACHED_PLUGIN_INFO alone and,
\* unless it raises, appends the descriptor to the lists of its tags in the
\* registry of the manager PLUG_IN_MANAGERS holds for the type.
OneWayLifecycle ==
    [][/\ DOMAIN PLUG_IN_MANAGERS \subseteq DOMAIN PLUG_IN_MANAGERS'
       /\ (/\ IsDeclaration'
           /\ PluginInfo[lastCall'.d].plugin_type \in DOMAIN PLUG_IN_MANAGERS)
          => LET m == PLUG_IN_MANAGERS[PluginInfo[lastCall'.d].plugin_type]
             IN /\ CACHED_PLUGIN_INFO' = CACHED_PLUGIN_INFO
                /\ PLUG_IN_MANAGERS' = PLUG_IN_MANAGERS
                /\ lastCall'.raised = NoExc =>
                      \A k \in IndexKeys :
                          ListAt(managers'[m].registry, k)
                            = ListAt(managers[m].registry, k)
                                \o Entries(<<lastCall'.d>>, k, 1)]_vars

\* a descriptor was declared for a type whose manager had been constructed
\* twice, after a class had been loaded by a resolve
OneWayLifecycleWitness ==
    /\ IsDeclaration
    /\ PluginInfo[lastCall.d].plugin_type \in DOMAIN PLUG_IN_MANAGERS
    /\ Cardinality(ManagersOf(PluginInfo[lastCall.d].plugin_type)) = 2
    /\ lastCall.d
         \in IndexedOn(PLUG_IN_MANAGERS[PluginInfo[lastCall.d].plugin_type])
    /\ \E d \in Desc : loads[d] > 0

\* C15: the construction of a manager for a type that has one makes the new
\* manager, with an empty registry, the one PLUG_IN_MANAGERS holds, and
\* leaves the older managers and CACHED_PLUGIN_INFO as they are; a
\* declaration changes no manager but the one PLUG_IN_MANAGERS holds; and a
\* key the manager asked does not have is not found, whichever other
\* manager has it.
SecondManagerReplaces ==
    [][/\ (/\ lastCall'.op = "PluginManager"
           /\ lastCall'.key \in DOMAIN PLUG_IN_MANAGERS) =>
              /\ Len(managers') = Len(managers) + 1
              /\ PLUG_IN_MANAGERS'
                   = Put(PLUG_IN_MANAGERS, lastCall'.key, Len(managers'))
              /\ managers'[Len(managers')]
                   = [plugin_name |-> lastCall'.key, registry |-> EmptyDict]
              /\ \A m \in 1..Len(managers) : managers'[m] = managers[m]
              /\ CACHED_PLUGIN_INFO' = CACHED_PLUGIN_INFO
       /\ IsDeclaration' =>
              \A m \in 1..Len(managers) :
                  m # get_manager(PLUG_IN_MANAGERS,
                                  PluginInfo[lastCall'.d].plugin_type)
                    => managers'[m] = managers[m]
       /\ (/\ IsResolve'
           /\ lower(lastCall'.key)
                \notin DOMAIN managers[lastCall'.mgr].registry) =>
              TagNotFound']_vars

\* the second manager of a type was asked for a key that only the first
\* has, after a descriptor was declared on the second
SecondManagerReplacesWitness ==
    /\ IsResolve /\ TagNotFound
    /\ PLUG_IN_MANAGERS[managers[lastCall.mgr].plugin_name] = lastCall.mgr
    /\ DOMAIN managers[lastCall.mgr].registry # {}
    /\ \E m \in ManagersOf(managers[lastCall.mgr].plugin_name) :
          /\ m < lastCall.mgr
          /\ lower(lastCall.key) \in DOMAIN managers[m].registry
          /\ IndexedOn(m) \cap IndexedOn(lastCall.mgr) = {}

\* the descriptors that have no import path: a class reaches them by
\* application only
HandleOnly == {d \in Desc : PluginInfo[d].absolute_import_path = Unset}

\* C16 as claimed: a resolve without a library of a tag of an applied
\* descriptor, on a manager that lists it, returns the class the descriptor
\* holds, and do_import_class is never called for the descriptor.
EagerResolvesToHandle ==
    (/\ IsResolve /\ lastCall.library = Unset
     /\ lower(lastCall.key) \in DOMAIN managers[lastCall.mgr].registry) =>
        \A d \in HandleOnly
                  \cap Range(managers[lastCall.mgr].registry[lower(lastCall.key)]) :
            /\ Succeeded
            /\ lastCall.result = cls[d]
            /\ loads[d] = 0

\* C16, amended: applying a descriptor to a class returns the class and
\* attaches it to the descriptor alone; with a manager in PLUG_IN_MANAGERS
\* the descriptor is appended to the list of each of its tags there, and
\* without one to the end of CACHED_PLUGIN_INFO[plugin_type]; a resolve
\* without a library returns the class of an applied descriptor that is
\* FIRST in the list of the key, loading nothing; and do_import_class never
\* loads for a descriptor without import path.
EagerDeclaration ==
    [][/\ lastCall'.op = "__call__" =>
            LET d == lastCall'.d
                t == PluginInfo[lastCall'.d].plugin_type
            IN /\ lastCall'.raised = NoExc
               /\ cls' = [cls EXCEPT ![d] = lastCall'.result]
               /\ lastCall'.result \in Classes
               /\ loads' = loads
               /\ t \in DOMAIN PLUG_IN_MANAGERS =>
                     /\ CACHED_PLUGIN_INFO' = CACHED_PLUGIN_INFO
                     /\ \A k \in IndexKeys :
                           ListAt(managers'[PLUG_IN_MANAGERS[t]].registry, k)
                             = ListAt(managers[PLUG_IN_MANAGERS[t]].registry, k)
                                 \o Entries(<<d>>, k, 1)
               /\ t \notin DOMAIN PLUG_IN_MANAGERS =>
                     /\ managers' = managers
                     /\ CACHED_PLUGIN_INFO'
                          = Put(CACHED_PLUGIN_INFO, t,
                                Append(ListAt(CACHED_PLUGIN_INFO, t), d))
       /\ (/\ IsResolve' /\ lastCall'.library = Unset
           /\ lower(lastCall'.key)
                \in DOMAIN managers[lastCall'.mgr].registry) =>
            LET first == managers[lastCall'.mgr].registry[lower(lastCall'.key)][1]
            IN (first \in HandleOnly /\ cls[first] # None) =>
                  /\ Succeeded'
                  /\ lastCall'.picked = first
                  /\ lastCall'.result = cls[first]
                  /\ lastCall'.loaded = <<>>
                  /\ cls' = cls /\ loads' = loads
       /\ \A d \in HandleOnly : loads'[d] = 0]_vars

\* a resolve returned the class of a descriptor that was applied while its
\* type had no manager and indexed by the drain
EagerDeclarationWitness ==
    /\ IsResolve /\ Succeeded
    /\ lastCall.picked \in HandleOnly
    /\ lastCall.result = cls[lastCall.picked]
    /\ LET t == PluginInfo[lastCall.picked].plugin_type
       IN /\ preLen[t] >= 1
          /\ declLog[t][1] = lastCall.picked
          /\ lastCall.mgr = PLUG_IN_MANAGERS[t]

\* C17: a step that is no load_me_now / get_a_plugin calls do_import_class
\* for no descriptor, and changes the class of no descriptor but the one
\* the step applies to a class.
DeclarationsResolveNothing ==
    [][~IsResolve' =>
          /\ loads' = loads
          /\ lastCall'.loaded = <<>>
          /\ \A d \in Desc :
                \/ cls'[d] = cls[d]
                \/ lastCall'.op = "__call__" /\ lastCall'.d = d]_vars

\* a manager was constructed and its drain indexed a descriptor with an
\* import path, which holds no class
DeclarationsResolveNothingWitness ==
    /\ lastCall.op = "PluginManager"
    /\ \E d \in IndexedOn(lastCall.mgr) :
          /\ PluginInfo[d].absolute_import_path # Unset
          /\ cls[d] = None
          /\ loads[d] = 0
    /\ \E d \in IndexedOn(lastCall.mgr) : cls[d] # None

\* a descriptor that has an import path or holds a class
Valid(d) == PluginInfo[d].absolute_import_path # Unset \/ cls[d] # None

\* C18 as claimed: add_a_plugin_instance of a valid descriptor raises
\* nothing, and leaves the descriptor in the registry of the manager of its
\* type or, without one, in CACHED_PLUGIN_INFO.
SubmitLazyAccepts ==
    (/\ lastCall.op \in {"add_a_plugin", "add_a_plugin_instance"}
     /\ Valid(lastCall.d)) =>
        LET t == PluginInfo[lastCall.d].plugin_type IN
        /\ lastCall.raised = NoExc
        /\ t \notin DOMAIN PLUG_IN_MANAGERS =>
              lastCall.d \in Range(ListAt(CACHED_PLUGIN_INFO, t))

\* the last call submitted a descriptor through a chain
IsLazyDeclaration == lastCall.op \in {"add_a_plugin", "add_a_plugin_instance"}

\* C19: each load_me_later (one per lazy declaration for a managed type, one
\* per pending descriptor in the drain of a construction) appends the
\* descriptor once per tag occurrence to the end of the list of the
\* lower-cased tag, whether or not the list holds it, and changes nothing
\* else of the registry.
IndexLaterAppends ==
    [][/\ (/\ IsLazyDeclaration' /\ lastCall'.raised = NoExc
           /\ PluginInfo[lastCall'.d].plugin_type \in DOMAIN PLUG_IN_MANAGERS)
          => LET m == PLUG_IN_MANAGERS[PluginInfo[lastCall'.d].plugin_type]
                 d == lastCall'.d
             IN /\ DOMAIN managers'[m].registry
                     = DOMAIN managers[m].registry
                         \cup {lower(tags(d)[j]) : j \in 1..Len(tags(d))}
                /\ \A k \in DOMAIN managers'[m].registry :
                       managers'[m].registry[k]
                         = ListAt(managers[m].registry, k)
                             \o Entries(<<d>>, k, 1)
       /\ (/\ lastCall'.op = "PluginManager"
           /\ lastCall'.key \in DOMAIN CACHED_PLUGIN_INFO)
          => LET r == managers'[lastCall'.mgr].registry
                 pending == CACHED_PLUGIN_INFO[lastCall'.key]
             IN /\ \A k \in IndexKeys : ListAt(r, k) = Entries(pending, k, 1)
                /\ DOMAIN r \subseteq IndexKeys]_vars

\* a descriptor was indexed a second time under a key whose list began with
\* another descriptor: the list ends with it twice
IndexLaterAppendsWitness ==
    /\ IsLazyDeclaration /\ lastCall.raised = NoExc
    /\ PluginInfo[lastCall.d].plugin_type \in DOMAIN PLUG_IN_MANAGERS
    /\ \E k \in DOMAIN managers[
                  PLUG_IN_MANAGERS[PluginInfo[lastCall.d].plugin_type]].registry :
          LET lst == managers[
                  PLUG_IN_MANAGERS[PluginInfo[lastCall.d].plugin_type]].registry[k]
          IN /\ Len(lst) = 3
             /\ lst[1] # lastCall.d
             /\ lst[2] = lastCall.d
             /\ lst[3] = lastCall.d

\* C20: a resolve of a key the manager has goes through the list up to the
\* first descriptor that ends it: the first one without a library, the
\* first whose class comes from the library with one, the first that cannot
\* be loaded, else the last. do_import_class is called, in list order, for
\* exactly the descriptors up to there that hold no class, and each class
\* it returns stays on its descriptor, whatever the outcome of the call;
\* the descriptors past that point, and all others, keep what they hold.
FilterLoadsWhileScanning ==
    [][(/\ IsResolve'
        /\ lower(lastCall'.key) \in DOMAIN managers[lastCall'.mgr].registry) =>
          LET lst == managers[lastCall'.mgr].registry[lower(lastCall'.key)]
              L == lastCall'.library
              fail == {i \in 1..Len(lst) : HandleOf(lst[i]) \notin Classes}
              match == {i \in (1..Len(lst)) \ fail :
                          Truthy(L) => PackageOf(HandleOf(lst[i])) = L[1]}
              stop == Min(fail \cup match \cup {Len(lst)})
              unloaded == [i \in 1..stop |->
                             IF /\ cls[lst[i]] = None
                                /\ PluginInfo[lst[i]].absolute_import_path
                                     # Unset
                                /\ \A j \in 1..(i - 1) : lst[j] # lst[i]
                             THEN lst[i] ELSE 0]
          IN /\ lastCall'.loaded = SelectSeq(unloaded, LAMBDA x : x # 0)
             /\ cls' = [d \in Desc |->
                          IF d \in Range(lastCall'.loaded)
                             /\ HandleOf(d) \in Classes
                          THEN HandleOf(d) ELSE cls[d]]
             /\ ~Truthy(L) => Len(lastCall'.loaded) <= 1
             /\ (match = {} /\ fail = {}) => LibraryNotInstalled']_vars

\* a resolve with a library ended "not installed" after it loaded two
\* descriptors, which hold their classes
FilterLoadsWhileScanningWitness ==
    /\ IsResolve /\ LibraryNotInstalled
    /\ Len(lastCall.loaded) = 2
    /\ \A i \in 1..2 : cls[lastCall.loaded[i]] \in Classes

\* the threads that ran a whole call of op
Finished(op) == {th \in ThreadIds : At(th, op, "done")}

\* C13 as claimed: when the construction of the manager of a type and
\* a declaration for the type have both finished, in whatever order their
\* steps were taken, the descriptor is in the manager's registry and the
\* type has no entry in CACHED_PLUGIN_INFO.
NoLostDeclaration ==
    \A c \in Finished("PluginManager") :
        \A th \in Finished("_load_me_later")
                    \cup Finished("_register_a_plugin") :
            (/\ threads[th].t = threads[c].t
             /\ threads[th].raised = NoExc
             /\ tags(threads[th].d) # <<>>
             /\ \A x \in ThreadIds : threads[x].pc \in {"idle", "done"}) =>
                /\ threads[th].d \in IndexedOn(threads[c].m)
                /\ threads[c].t \notin DOMAIN CACHED_PLUGIN_INFO

====
